---- MODULE Spec2Model ----
(***************************************************************************)
(* Model of rgdd/lwm: a static Merkle tree with single-leaf and range      *)
(* audit paths (MerkleTree) and the wildcard lookup layer built on it      *)
(* (WildcardTree, Answer, Proof).                                          *)
(*                                                                         *)
(* Byte strings are sequences of symbols.  A symbol is either a raw byte   *)
(* [b |-> 0..255], one byte wide, or the digest [h |-> input] of a hash    *)
(* input, hashLen bytes wide.  Two digests are equal iff their             *)
(* concatenated inputs are equal: the hash is collision free and nothing   *)
(* else is assumed of it.  A nil slice and a slice of length zero are both *)
(* the empty sequence.                                                     *)
(***************************************************************************)
EXTENDS Integers, Sequences, FiniteSets, TLC

VARIABLES
    mt,        \* the MerkleTree (of the test, or wt.mt of the WildcardTree)
    r,         \* wt.r: the radix tree, key -> radixValue
    pc,        \* the operation that returned last, or "panic"
    snapshot,  \* the root the caller saved from Mth() / Snapshot(), Nil before
    input,     \* the arguments handed to Proof.Verify: key, answer, proof, size, snapshot
    origin,    \* where input comes from: "Get", or the field replaced in transit
    verdict,   \* what Proof.Verify returned
    args,      \* the arguments of the last Merkle tree call
    ret        \* what the last Merkle tree call returned

vars == <<mt, r, pc, snapshot, input, origin, verdict, args, ret>>

----------------------------------------------------------------------------
(* Bytes, strings and the hash                                             *)

hashLen == 32

Nil == <<>>

B(n) == [b |-> n]

IsRaw(s) == "b" \in DOMAIN s

\* The rank of a symbol in byte order; keys hold raw bytes only.
Rank(s) == IF IsRaw(s) THEN s.b ELSE 256

RECURSIVE Concat(_)
Concat(parts) ==
    IF Len(parts) = 0 THEN <<>> ELSE Head(parts) \o Concat(Tail(parts))

\* hash concatenates data and outputs a digest (hashLen bytes, one symbol)
hash(data) == <<[h |-> Concat(data)]>>

\* len(data) in bytes
Width(s) == IF IsRaw(s) THEN 1 ELSE hashLen

RECURSIVE len(_)
len(data) == IF Len(data) = 0 THEN 0 ELSE Width(Head(data)) + len(Tail(data))

\* data[:n] for a byte count n: the symbols that end at or before byte n.  No
\* byte string of the model is cut inside a digest.
RECURSIVE BytesTake(_, _)
BytesTake(data, n) ==
    IF Len(data) = 0 \/ Width(Head(data)) > n THEN <<>>
    ELSE <<Head(data)>> \o BytesTake(Tail(data), n - Width(Head(data)))

\* Go's string comparison: byte-wise lexicographic, a proper prefix is smaller
RECURSIVE StrLess(_, _)
StrLess(s, t) ==
    IF Len(t) = 0 THEN FALSE
    ELSE IF Len(s) = 0 THEN TRUE
    ELSE IF Rank(Head(s)) # Rank(Head(t)) THEN Rank(Head(s)) < Rank(Head(t))
    ELSE StrLess(Tail(s), Tail(t))

StrLeq(s, t) == ~StrLess(t, s)

HasPrefix(s, p) == Len(p) <= Len(s) /\ SubSeq(s, 1, Len(p)) = p

min(a, b) == IF a < b THEN a ELSE b

head(data) ==
    IF Len(data) = 0 THEN [h |-> Nil, tail |-> Nil]
    ELSE IF Len(data) = 1 THEN [h |-> data[1], tail |-> Nil]
    ELSE [h |-> data[1], tail |-> Tail(data)]

last(data) == IF Len(data) > 0 THEN data[Len(data)] ELSE Nil

next(data) == IF Len(data) > 1 THEN SubSeq(data, 1, Len(data) - 1) ELSE Nil

\* big.Int.BitLen of the absolute value of x
RECURSIVE BitLen(_)
BitLen(x) ==
    IF x < 0 THEN BitLen(-x)
    ELSE IF x = 0 THEN 0 ELSE 1 + BitLen(x \div 2)

\* int(math.Pow(2, e)): 2^-1 truncates to 0
Pow2(e) == IF e < 0 THEN 0 ELSE 2 ^ e

\* lpow2s outputs the largest power of 2 smaller than n
lpow2s(n) == Pow2(BitLen(n - 1) - 1)

\* data[:k] and data[k:]
Take(data, k) == SubSeq(data, 1, k)
Drop(data, k) == SubSeq(data, k + 1, Len(data))

----------------------------------------------------------------------------
(* MerkleTree                                                              *)

\* A *hashCache is the address of a node: the path from the root cache node,
\* 0 for left and 1 for right.  The cache maps every allocated node to its
\* field `this` (Nil when not computed); a child pointer is non-nil iff the
\* child's address is allocated.
NilPtr == <<-1>>
RootPtr == <<>>

Left(cache, c)  == IF (c \o <<0>>) \in DOMAIN cache THEN c \o <<0>> ELSE NilPtr
Right(cache, c) == IF (c \o <<1>>) \in DOMAIN cache THEN c \o <<1>> ELSE NilPtr

\* c.left = new(hashCache); c.right = new(hashCache)
NewChildren(cache, c) ==
    [p \in (DOMAIN cache) \cup {c \o <<0>>, c \o <<1>>} |->
        IF p \in {c \o <<0>>, c \o <<1>>} THEN Nil ELSE cache[p]]

SetThis(cache, c, v) == [cache EXCEPT ![c] = v]

NewMerkleTree(twc_, leafPrefix_, interiorPrefix_, data) ==
    [twc |-> twc_, leafPrefix |-> leafPrefix_, interiorPrefix |-> interiorPrefix_,
     data |-> data, cache |-> [p \in {RootPtr} |-> Nil]]

\* The results of mth and ap: the value returned, the cache as the call left
\* it, and whether the call panicked.
MthResult(c, cache, v) == [panic |-> FALSE, val |-> v, cache |-> SetThis(cache, c, v)]

NoPath(cache) == [panic |-> FALSE, path |-> Nil, cache |-> cache]

\* c.this = hash(interiorPrefix, l, rr) of the two recursive calls
mthJoin(t, c, l, rr) ==
    IF l.panic THEN l
    ELSE IF rr.panic THEN rr
    ELSE MthResult(c, rr.cache, hash(<<t.interiorPrefix, l.val, rr.val>>))

\* mth returns the digest of data, filling the cache below node c.  Reading a
\* field of a nil *hashCache is a nil pointer dereference: the call panics.
\* Go evaluates mth(data[:k], c.left) before mth(data[k:], c.right).
RECURSIVE mth(_, _, _, _)
mthRight(t, data, k, c, l) ==
    mthJoin(t, c, l, mth(t, Drop(data, k), Right(l.cache, c), l.cache))

mthSplit(t, data, k, c, c0) ==
    mthRight(t, data, k, c, mth(t, Take(data, k), Left(c0, c), c0))

mth(t, data, c, cache) ==
    IF c = NilPtr THEN [panic |-> TRUE, val |-> Nil, cache |-> cache]
    ELSE IF cache[c] # Nil THEN [panic |-> FALSE, val |-> cache[c], cache |-> cache]
    ELSE IF Len(data) = 0 THEN MthResult(c, cache, hash(<<t.twc>>))
    ELSE IF Len(data) = 1 THEN MthResult(c, cache, hash(<<t.twc, t.leafPrefix, data[1]>>))
    ELSE mthSplit(t, data, lpow2s(Len(data)), c, NewChildren(cache, c))

\* append(a, s): the path a of the recursive ap call, then the sibling digest s
apJoin(a, s) ==
    IF a.panic THEN a
    ELSE IF s.panic THEN [panic |-> TRUE, path |-> Nil, cache |-> s.cache]
    ELSE [panic |-> FALSE, path |-> Append(a.path, s.val), cache |-> s.cache]

\* ap: the audit path of the m:th leaf of data, under cache node c.  c.left
\* and c.right are read only when len(data) > 1; Go evaluates the recursive ap
\* call before the mth call of the sibling.
RECURSIVE ap(_, _, _, _, _)
apLeft(t, data, k, c, a) ==
    apJoin(a, mth(t, Drop(data, k), Right(a.cache, c), a.cache))

apRight(t, data, k, c, a) ==
    apJoin(a, mth(t, Take(data, k), Left(a.cache, c), a.cache))

apSplit(t, m, data, k, c, cache) ==
    IF m < k
    THEN apLeft(t, data, k, c, ap(t, m, Take(data, k), Left(cache, c), cache))
    ELSE apRight(t, data, k, c, ap(t, m - k, Drop(data, k), Right(cache, c), cache))

ap(t, m, data, c, cache) ==
    IF Len(data) <= 1 THEN NoPath(cache)
    ELSE IF c = NilPtr THEN [panic |-> TRUE, path |-> Nil, cache |-> cache]
    ELSE apSplit(t, m, data, lpow2s(Len(data)), c, cache)

\* The loop of MthFromAp; rest is what is left of path when the loop ends.
RECURSIVE MthFromApLoop(_, _, _, _, _)
MthFromApLoop(t, rt, index, lastIndex, path) ==
    IF lastIndex <= 0 THEN [val |-> rt, rest |-> path]
    ELSE IF index % 2 = 1 THEN
        MthFromApLoop(t, hash(<<t.interiorPrefix, head(path).h, rt>>),
                      index \div 2, lastIndex \div 2, head(path).tail)
    ELSE IF index < lastIndex THEN
        MthFromApLoop(t, hash(<<t.interiorPrefix, rt, head(path).h>>),
                      index \div 2, lastIndex \div 2, head(path).tail)
    ELSE MthFromApLoop(t, rt, index \div 2, lastIndex \div 2, path)

\* Mutant of MthFromAp: lastIndex starts at size instead of size - 1
MthFromAp_LastIndexSize(t, l, index, size, path) ==
    MthFromApLoop(t, hash(<<t.twc, t.leafPrefix, l>>), index, size, path)

\* MthFromAp builds a root hash from an audit path
MthFromAp(t, l, index, size, path) ==
    MthFromApLoop(t, hash(<<t.twc, t.leafPrefix, l>>), index, size - 1, path)

\* Mutant of split: the range start in the right half keeps the sign of k - i
split_SignSlip(k, n, i) ==
    LET s == k - i
    IN  IF s > 0 THEN <<min(n, s), i, 0>> ELSE <<0, 0, s>>

\* split: <<sindex, lindex, rindex>>
split(k, n, i) ==
    LET s == k - i
    IN  IF s > 0 THEN <<min(n, s), i, 0>> ELSE <<0, 0, -s>>

\* dp is used separately for {left,right} APs that are on disjoint paths
RECURSIVE dp(_, _, _, _, _)
\* Mutant of dp: the audit path is not shortened on the way down
dp_KeepPath(t, data, i, n, path) ==
    IF Len(data) = 0 THEN last(path)
    ELSE IF n = 1 THEN hash(<<t.twc, t.leafPrefix, last(data)>>)
    ELSE
        LET k  == lpow2s(n)
            sp == split(k, Len(data), i)
        IN  hash(<<t.interiorPrefix,
                   dp(t, Take(data, sp[1]), sp[2], k, path),
                   dp(t, Drop(data, sp[1]), sp[3], n - k, path)>>)

dp(t, data, i, n, path) ==
    IF Len(data) = 0 THEN last(path)
    ELSE IF n = 1 THEN hash(<<t.twc, t.leafPrefix, last(data)>>)
    ELSE
        LET k  == lpow2s(n)
            sp == split(k, Len(data), i)
        IN  hash(<<t.interiorPrefix,
                   dp(t, Take(data, sp[1]), sp[2], k, next(path)),
                   dp(t, Drop(data, sp[1]), sp[3], n - k, next(path))>>)

\* jp is used for {left,right} APs that go down joint paths
RECURSIVE jp(_, _, _, _, _, _)
jp(t, data, i, n, lAp, rAp) ==
    LET k  == lpow2s(n)
        sp == split(k, Len(data), i)
        l2 == IF lAp = Nil THEN rAp ELSE lAp
        r2 == IF lAp # Nil /\ rAp = Nil THEN lAp ELSE rAp
    IN  IF lAp # Nil /\ rAp # Nil /\ last(lAp) = last(rAp) THEN
            IF sp[1] > 0 THEN
                hash(<<t.interiorPrefix,
                       jp(t, data, sp[2], k, next(lAp), next(rAp)),
                       last(lAp)>>)
            ELSE
                hash(<<t.interiorPrefix,
                       last(rAp),
                       jp(t, data, sp[3], n - k, next(lAp), next(rAp))>>)
        ELSE
            hash(<<t.interiorPrefix,
                   dp(t, Take(data, sp[1]), sp[2], k, l2),
                   dp(t, Drop(data, sp[1]), sp[3], n - k, r2)>>)

\* MthFromRangeAp builds a root hash from a consecutive range of leaves
MthFromRangeAp(t, data, i, n, lAp, rAp) ==
    IF n = 0 THEN
        IF data # Nil \/ i >= 0 \/ lAp # Nil \/ rAp # Nil
        THEN [err |-> TRUE, val |-> Nil]
        ELSE [err |-> FALSE, val |-> hash(<<t.twc>>)]
    ELSE IF n = 1 THEN
        IF Len(data) # 1 \/ i # 0 \/ lAp # Nil \/ rAp # Nil
        THEN [err |-> TRUE, val |-> Nil]
        ELSE [err |-> FALSE, val |-> hash(<<t.twc, t.leafPrefix, data[1]>>)]
    ELSE IF i + Len(data) > n THEN [err |-> TRUE, val |-> Nil]
    ELSE IF Len(data) = 1 /\ i > 0 /\ i < n - 1 THEN [err |-> TRUE, val |-> Nil]
    ELSE [err |-> FALSE, val |-> jp(t, data, i, n, lAp, rAp)]

\* Mth computes the Merkle tree head; Ap the audit path of the m:th leaf
Mth(t) == mth(t, t.data, RootPtr, t.cache)

ApOn(t, cache, m) == ap(t, m, t.data, RootPtr, cache)

Ap(t, m) == ApOn(t, t.cache, m)

\* Two calls of Ap one after the other, for the leaves m1 and then m2; a
\* negative leaf stands for no call (the path stays nil).  A panic of the
\* first call ends the program before the second.
ApOpt(t, cache, m) == IF m < 0 THEN NoPath(cache) ELSE ApOn(t, cache, m)

ApPair(a, b) ==
    [panic |-> a.panic \/ b.panic, cache |-> b.cache, first |-> a.path, second |-> b.path]

ApThen(t, a, m2) == ApPair(a, IF a.panic THEN a ELSE ApOpt(t, a.cache, m2))

TwoAps(t, m1, m2) == ApThen(t, ApOpt(t, t.cache, m1), m2)

----------------------------------------------------------------------------
(* WildcardTree, Answer, Proof                                             *)

leafPrefix == <<B(0)>>
interiorPrefix == <<B(1)>>

\* The sequence of the keys of S in ascending byte order: the order in which
\* radix.Tree.WalkPrefix visits them.
RECURSIVE SortedKeys(_)
SortedKeys(S) ==
    IF S = {} THEN <<>>
    ELSE LET k == CHOOSE x \in S : \A y \in S \ {x} : StrLess(x, y)
         IN  <<k>> \o SortedKeys(S \ {k})

\* Mutant of WalkPrefix: only the stored key equal to key is visited
WalkPrefix_Exact(rt, key) == SortedKeys({k \in DOMAIN rt : k = key})

\* WalkPrefix(key, ...): the stored keys that have key as a prefix, in order
WalkPrefix(rt, key) == SortedKeys({k \in DOMAIN rt : HasPrefix(k, key)})

\* mkKey outputs the key of a leaf's data
mkKey(data) ==
    IF len(data) >= hashLen THEN BytesTake(data, len(data) - hashLen) ELSE <<>>

\* The leaf of key k with payload list p
mkLeaf(k, p) == k \o hash(p)

\* NewWildcardTree: m maps every key to its payload list
NewWildcardTree(twc_, m) ==
    LET keys == SortedKeys(DOMAIN m)
        idx(k) == CHOOSE i \in 1..Len(keys) : keys[i] = k
        data == [i \in 1..Len(keys) |-> mkLeaf(keys[i], m[keys[i]])]
    IN  [r  |-> [k \in DOMAIN m |-> [payload |-> m[k], index |-> idx(k) - 1]],
         mt |-> NewMerkleTree(twc_, leafPrefix, interiorPrefix, data)]

\* sort.Search(n, f) with f(i) = mkKey(data[i]) >= key: binary search on [i, j)
RECURSIVE Search(_, _, _, _)
Search(data, key, i, j) ==
    IF i >= j THEN i
    ELSE LET hh == (i + j) \div 2
         IN  IF ~StrLeq(key, mkKey(data[hh + 1]))
             THEN Search(data, key, hh + 1, j)
             ELSE Search(data, key, i, hh)

EmptyAnswer == [subject |-> <<>>, payload |-> <<>>]

NoProof(t) ==
    [twc |-> t.twc, index |-> -1, ll |-> Nil, rl |-> Nil, lap |-> Nil, rap |-> Nil]

\* What Get returns: the answer, and the proof with the leaves li and ri as
\* left and right bracket (negative: none) and their audit paths
GetResult(t, answer, index, li, ri, lap, rap, aps) ==
    [panic |-> aps.panic, cache |-> aps.cache, answer |-> answer,
     proof |-> [twc |-> t.twc, index |-> index,
                ll  |-> IF li >= 0 THEN t.data[li + 1] ELSE Nil,
                rl  |-> IF ri >= 0 THEN t.data[ri + 1] ELSE Nil,
                lap |-> lap, rap |-> rap]]

\* Get when no stored key matches: the proof for where key should be, p being
\* what sort.Search returned.  The left audit path is computed first.
MissResult(t, index, li, ri, aps) ==
    GetResult(t, EmptyAnswer, index, li, ri, aps.first, aps.second, aps)

MissAt(t, n, p) ==
    IF p = n THEN MissResult(t, n - 1, n - 1, -1, TwoAps(t, n - 1, -1))
    ELSE IF p = 0 THEN MissResult(t, 0, -1, 0, TwoAps(t, -1, 0))
    ELSE MissResult(t, p - 1, p - 1, p, TwoAps(t, p - 1, p))

GetMiss(rt, t, key) == MissAt(t, Len(t.data), Search(t.data, key, 0, Len(t.data)))

HitResult(t, answer, index, li, ri, aps) ==
    GetResult(t, answer, index, li, ri, aps.second, aps.first, aps)

\* Mutant of HitAt: proof.index stays at the first match when a left bracket
\* is added
HitAt_KeepIndex(t, answer, first, li, ri) ==
    HitResult(t, answer, first, li, ri, TwoAps(t, ri, li))

\* Get when at least one stored key matches: the range proof for the matches
\* first..first+len-1, li and ri being the bracket leaves (negative: none).
\* The right audit path is computed first; proof.index moves to the left
\* bracket when there is one.
HitAt(t, answer, first, li, ri) ==
    HitResult(t, answer, IF li >= 0 THEN li ELSE first, li, ri, TwoAps(t, ri, li))

\* Mutant of HitRange: the left bracket is left out when the first match is
\* leaf 1
HitRange_LeftOffByOne(t, answer, first, rindex) ==
    HitAt(t, answer, first,
          IF first > 1 THEN first - 1 ELSE -1,
          IF rindex < Len(t.data) THEN rindex ELSE -1)

HitRange(t, answer, first, rindex) ==
    HitAt(t, answer, first,
          IF first > 0 THEN first - 1 ELSE -1,
          IF rindex < Len(t.data) THEN rindex ELSE -1)

HitAnswer(rt, t, subj) ==
    HitRange(t,
             [subject |-> subj,
              payload |-> [i \in 1..Len(subj) |-> rt[subj[i]].payload]],
             rt[subj[1]].index, rt[subj[1]].index + Len(subj))

GetHit(rt, t, key) == HitAnswer(rt, t, WalkPrefix(rt, key))

\* Get outputs a verifiable wildcard answer for key
Get(rt, t, key) ==
    IF Len(t.data) = 0 THEN
        [panic |-> FALSE, cache |-> t.cache, answer |-> EmptyAnswer,
         proof |-> NoProof(t)]
    ELSE IF WalkPrefix(rt, key) = <<>> THEN GetMiss(rt, t, key)
    ELSE GetHit(rt, t, key)

\* indices returns the {left,right} inclusive range for a proof and an answer
indices(p, a) ==
    IF p.index >= 0
    THEN <<p.index,
           p.index + Len(a.subject) - 1
             + (IF p.ll # Nil THEN 1 ELSE 0) + (IF p.rl # Nil THEN 1 ELSE 0)>>
    ELSE <<p.index, 0>>

\* mkLeafData makes a consecutive range of leaf data from a proof and an answer
mkLeafData(p, a) ==
    LET n == Len(a.subject)
    IN  IF n # Len(a.payload) THEN [ok |-> FALSE, d |-> Nil]
        ELSE IF p.ll # Nil /\ n > 0 /\ StrLess(a.subject[1], mkKey(p.ll))
        THEN [ok |-> FALSE, d |-> Nil]
        ELSE IF \E i \in 2..n : StrLeq(a.subject[i], a.subject[i - 1])
        THEN [ok |-> FALSE, d |-> Nil]
        ELSE IF p.rl # Nil /\ n > 0 /\ StrLess(mkKey(p.rl), a.subject[n])
        THEN [ok |-> FALSE, d |-> Nil]
        ELSE [ok |-> TRUE,
              d  |-> (IF p.ll # Nil THEN <<p.ll>> ELSE <<>>)
                     \o [i \in 1..n |-> mkLeaf(a.subject[i], a.payload[i])]
                     \o (IF p.rl # Nil THEN <<p.rl>> ELSE <<>>)]

\* Mutant of RootMatches: the rebuilt root is not compared with the snapshot
RootMatches_NoSnapshot(m, snap) == ~m.err

\* err == nil && bytes.Equal(snapshot, snapshotp)
RootMatches(m, snap) == ~m.err /\ snap = m.val

VerifyRange(p, key, size, snap, ix, ld) ==
    IF (p.ll = Nil /\ ix[1] > 0) \/ (p.rl = Nil /\ ix[2] + 1 < size) THEN FALSE
    ELSE IF (p.ll # Nil /\ StrLess(key, mkKey(p.ll)))
            \/ (p.rl # Nil /\ StrLess(mkKey(p.rl), key)) THEN FALSE
    ELSE IF ~ld.ok THEN FALSE
    ELSE RootMatches(
             MthFromRangeAp(NewMerkleTree(p.twc, leafPrefix, interiorPrefix, Nil),
                            ld.d, ix[1], size, p.lap, p.rap),
             snap)

\* Verify outputs true if answer is valid for key, proof, size, and snapshot
Verify(p, key, a, size, snap) ==
    VerifyRange(p, key, size, snap, indices(p, a), mkLeafData(p, a))

----------------------------------------------------------------------------
(* Bounds and the inputs the model draws from                              *)

\* The largest number of keys of a map handed to NewWildcardTree
MaxKeys == 5

\* The largest number of leaves of a Merkle tree of the tests (leafData(n))
MaxLeaves == 9
MaxAnyLeaves == 4

Str(bytes) == [i \in 1..Len(bytes) |-> B(bytes[i])]

\* The keys maps are built from: "a", "ab", "b", "ba", "bb", "c"
KeyUniverse ==
    {Str(<<97>>), Str(<<97, 98>>), Str(<<98>>), Str(<<98, 97>>),
     Str(<<98, 98>>), Str(<<99>>)}

\* The query keys: "", "`", "aa", "bc", "d" and every key of the universe
QueryKeys ==
    KeyUniverse \cup {<<>>, Str(<<96>>), Str(<<97, 97>>), Str(<<98, 99>>), Str(<<100>>)}

\* testData: a key's payload list is its certificates, two for a one-byte key
PayloadOf(k) ==
    IF Len(k) = 1 THEN <<k \o Str(<<49>>), k \o Str(<<50>>)>> ELSE <<k \o Str(<<49>>)>>

Maps ==
    {[k \in S |-> PayloadOf(k)] : S \in {T \in SUBSET KeyUniverse : Cardinality(T) <= MaxKeys}}

\* twc of the wildcard tree tests; testTwc, lp, ip of the Merkle tree tests
twc == <<B(255)>>
testTwc == Nil
lp == <<B(108)>>
ip == <<B(105)>>

\* The decimal digits of i > 0, as bytes (fmt.Sprintf("%d", i))
RECURSIVE Decimal(_)
Decimal(i) ==
    IF i < 10 THEN <<B(48 + i)>> ELSE Decimal(i \div 10) \o <<B(48 + (i % 10))>>

leafData(n) == [i \in 1..n |-> Decimal(i)]

NoInput == [key |-> <<>>, answer |-> EmptyAnswer, proof |-> NoProof([twc |-> Nil]),
            size |-> 0, snapshot |-> Nil]
NoArgs == [op |-> "none"]
NoRet == [val |-> Nil]

----------------------------------------------------------------------------
(* The wildcard tree and its callers                                       *)

Init ==
    /\ \E m \in Maps :
          LET wt == NewWildcardTree(twc, m)
          IN  mt = wt.mt /\ r = wt.r
    /\ pc = "new"
    /\ snapshot = Nil
    /\ input = NoInput
    /\ origin = "none"
    /\ verdict = FALSE
    /\ args = NoArgs
    /\ ret = NoRet

\* Snapshot outputs the root hash of the underlying Merkle tree.  A caller
\* holding an answer of Get that it has not verified yet keeps it.
Snapshotted(res) ==
    /\ mt' = [mt EXCEPT !.cache = res.cache]
    /\ snapshot' = res.val
    /\ IF pc = "Get"
       THEN /\ pc' = "Get"
            /\ input' = [input EXCEPT !.snapshot = res.val]
            /\ origin' = origin
       ELSE /\ pc' = "Snapshot"
            /\ input' = NoInput
            /\ origin' = "none"

CallSnapshot ==
    /\ pc \in {"new", "Get"}
    /\ Snapshotted(Mth(mt))
    /\ verdict' = FALSE
    /\ UNCHANGED <<r, args, ret>>

\* answer, proof := wt.Get(key); a nil dereference inside Ap ends the program
Got(key, res) ==
    /\ mt' = [mt EXCEPT !.cache = res.cache]
    /\ IF res.panic
       THEN /\ pc' = "panic"
            /\ input' = [NoInput EXCEPT !.key = key]
            /\ origin' = "none"
       ELSE /\ pc' = "Get"
            /\ input' = [key |-> key, answer |-> res.answer, proof |-> res.proof,
                         size |-> Len(mt.data), snapshot |-> snapshot]
            /\ origin' = "Get"

CallGet(key) ==
    /\ pc \in {"new", "Snapshot"}
    /\ Got(key, Get(r, mt, key))
    /\ verdict' = FALSE
    /\ UNCHANGED <<r, snapshot, args, ret>>

\* proof.Verify(key, answer, size, snapshot) on what the verifier received
CallVerify ==
    /\ pc \in {"Get", "Tamper", "Forge"}
    /\ snapshot # Nil
    /\ verdict' = Verify(input.proof, input.key, input.answer, input.size, input.snapshot)
    /\ pc' = "Verify"
    /\ UNCHANGED <<mt, r, snapshot, input, origin, args, ret>>

\* The caller is done with this answer and goes on to its next query
NextQuery ==
    /\ pc = "Verify"
    /\ pc' = "Snapshot"
    /\ input' = NoInput /\ origin' = "none" /\ verdict' = FALSE
    /\ UNCHANGED <<mt, r, snapshot, args, ret>>

----------------------------------------------------------------------------
(* In transit: one field of an answer of Get is replaced by another value   *)

\* Digests other than the one replaced: another root, the digest of some
\* other input, and the digests the proof carries
DigestPool ==
    {hash(<<twc>>), hash(<<Str(<<120>>)>>), snapshot}
    \cup {input.proof.lap[i] : i \in 1..Len(input.proof.lap)}
    \cup {input.proof.rap[i] : i \in 1..Len(input.proof.rap)}

\* Leaves other than the one replaced: the stored leaves, a leaf of each key of
\* the universe with another payload digest, and one shorter than a digest
LeafPool ==
    {mt.data[i] : i \in 1..Len(mt.data)}
    \cup {mkLeaf(k, <<Str(<<120>>)>>) : k \in KeyUniverse}
    \cup {Str(<<97>>)}

\* Payload elements other than the one replaced
ElementPool == {<<>>, Str(<<120>>), Str(<<97, 49>>), Str(<<97, 50>>)}

Tampered(what, in) ==
    /\ pc = "Get"
    /\ snapshot # Nil
    /\ pc' = "Tamper"
    /\ origin' = what
    /\ input' = in
    /\ UNCHANGED <<mt, r, snapshot, verdict, args, ret>>

TamperSnapshot ==
    \E d \in DigestPool \ {input.snapshot} :
        Tampered("snapshot", [input EXCEPT !.snapshot = d])

TamperSubject ==
    \E i \in 1..Len(input.answer.subject) :
        \E k \in KeyUniverse \ {input.answer.subject[i]} :
            Tampered("subject", [input EXCEPT !.answer.subject[i] = k])

TamperPayload ==
    \E i \in 1..Len(input.answer.payload) :
        \E j \in 1..Len(input.answer.payload[i]) :
            \E v \in ElementPool \ {input.answer.payload[i][j]} :
                Tampered("payload", [input EXCEPT !.answer.payload[i][j] = v])

TamperLl ==
    /\ input.proof.ll # Nil
    /\ \E v \in LeafPool \ {input.proof.ll} :
           Tampered("ll", [input EXCEPT !.proof.ll = v])

TamperRl ==
    /\ input.proof.rl # Nil
    /\ \E v \in LeafPool \ {input.proof.rl} :
           Tampered("rl", [input EXCEPT !.proof.rl = v])

TamperLap ==
    \E i \in 1..Len(input.proof.lap) :
        \E d \in DigestPool \ {input.proof.lap[i]} :
            Tampered("lap", [input EXCEPT !.proof.lap[i] = d])

TamperRap ==
    \E i \in 1..Len(input.proof.rap) :
        \E d \in DigestPool \ {input.proof.rap[i]} :
            Tampered("rap", [input EXCEPT !.proof.rap[i] = d])

Next ==
    \/ CallSnapshot
    \/ \E key \in QueryKeys : CallGet(key)
    \/ CallVerify
    \/ NextQuery
    \/ TamperSnapshot
    \/ TamperSubject
    \/ TamperPayload
    \/ TamperLl
    \/ TamperRl
    \/ TamperLap
    \/ TamperRap

Spec == Init /\ [][Next]_vars

----------------------------------------------------------------------------
(* A dishonest prover                                                      *)

\* The prover answers the query key with the stored leaves lo..hi (1-based):
\* the first as left bracket if useL, the last as right bracket if useR, the
\* others as matches with their stored payloads, and the audit paths of the
\* bracket leaves.  The verifier holds the size and the snapshot of the tree.
Forge(key, lo, hi, useL, useR) ==
    /\ pc = "Snapshot"
    /\ lo >= 1 /\ lo <= hi /\ hi <= Len(mt.data)
    /\ useL /\ useR => lo < hi
    /\ LET from == IF useL THEN lo + 1 ELSE lo
           to   == IF useR THEN hi - 1 ELSE hi
           keys == SortedKeys(DOMAIN r)
           subj == [i \in 1..(to - from + 1) |-> keys[from + i - 1]]
       IN  input' =
             [key |-> key,
              answer |-> [subject |-> subj,
                          payload |-> [i \in 1..Len(subj) |-> r[subj[i]].payload]],
              proof |-> [twc |-> mt.twc, index |-> lo - 1,
                         ll  |-> IF useL THEN mt.data[lo] ELSE Nil,
                         rl  |-> IF useR THEN mt.data[hi] ELSE Nil,
                         lap |-> IF useL THEN Ap(mt, lo - 1).path ELSE Nil,
                         rap |-> IF useR THEN Ap(mt, hi - 1).path ELSE Nil],
              size |-> Len(mt.data), snapshot |-> snapshot]
    /\ pc' = "Forge"
    /\ origin' = "Forge"
    /\ UNCHANGED <<mt, r, snapshot, verdict, args, ret>>

NextAdv ==
    \/ CallSnapshot
    \/ \E key \in QueryKeys : \E lo, hi \in 1..MaxKeys : \E useL, useR \in BOOLEAN :
          Forge(key, lo, hi, useL, useR)
    \/ CallVerify
    \/ NextQuery

SpecAdv == Init /\ [][NextAdv]_vars

----------------------------------------------------------------------------
(* The Merkle tree and its callers                                         *)

InitMt ==
    /\ \E n \in 0..MaxLeaves : mt = NewMerkleTree(testTwc, lp, ip, leafData(n))
    /\ r = <<>>
    /\ pc = "new"
    /\ snapshot = Nil
    /\ input = NoInput
    /\ origin = "none"
    /\ verdict = FALSE
    /\ args = NoArgs
    /\ ret = NoRet

\* r := mt.Mth()
MthReturned(res) ==
    /\ mt' = [mt EXCEPT !.cache = res.cache]
    /\ snapshot' = res.val
    /\ ret' = [val |-> res.val]

CallMth ==
    /\ pc # "panic"
    /\ MthReturned(Mth(mt))
    /\ pc' = "Mth"
    /\ args' = [op |-> "Mth"]
    /\ UNCHANGED <<r, input, origin, verdict>>

\* path := mt.Ap(m); a nil dereference ends the program
ApReturned(res) ==
    /\ mt' = [mt EXCEPT !.cache = res.cache]
    /\ pc' = IF res.panic THEN "panic" ELSE "Ap"
    /\ ret' = [val |-> Nil, path |-> res.path]

CallAp(m) ==
    /\ pc # "panic"
    /\ m >= 0 /\ m < Len(mt.data)
    /\ ApReturned(Ap(mt, m))
    /\ args' = [op |-> "Ap", m |-> m]
    /\ UNCHANGED <<r, snapshot, input, origin, verdict>>

\* rp := mt.MthFromAp(data[m], m, len(data), path) with the path Ap(m) returned
CallMthFromAp ==
    /\ pc = "Ap"
    /\ LET res == MthFromAp(mt, mt.data[args.m + 1], args.m, Len(mt.data), ret.path)
       IN  ret' = [val |-> res.val, rest |-> res.rest, path |-> ret.path]
    /\ pc' = "MthFromAp"
    /\ args' = [args EXCEPT !.op = "MthFromAp"]
    /\ UNCHANGED <<mt, r, snapshot, input, origin, verdict>>

\* The audit paths a caller hands to MthFromRangeAp for the range d[i:j]:
\* "inside", to the first and the last leaf of the range (leaves i and j-1);
\* "outside", to the leaves next to the range (leaves i-1 and j).
PathLeaves(i, j, conv) ==
    IF conv = "inside" THEN <<i, j - 1>> ELSE <<i - 1, j>>

\* rp, err := mt.MthFromRangeAp(d[i:j], i, n, lAp, rAp), with lAp absent when
\* i = 0 and rAp absent when j = n
RangeReturned(i, j, conv, aps) ==
    /\ mt' = [mt EXCEPT !.cache = aps.cache]
    /\ IF aps.panic
       THEN pc' = "panic" /\ ret' = NoRet
       ELSE /\ pc' = "MthFromRangeAp"
            /\ ret' = MthFromRangeAp(mt, SubSeq(mt.data, i + 1, j), i, Len(mt.data),
                                     aps.first, aps.second)
    /\ args' = [op |-> "MthFromRangeAp", i |-> i, j |-> j, conv |-> conv,
                lAp |-> aps.first, rAp |-> aps.second]

RangePaths(i, j, pl) ==
    TwoAps(mt, IF i # 0 THEN pl[1] ELSE -1, IF j # Len(mt.data) THEN pl[2] ELSE -1)

CallMthFromRangeAp(i, j, conv) ==
    /\ pc # "panic"
    /\ 0 <= i /\ i < j /\ j <= Len(mt.data)
    /\ RangeReturned(i, j, conv, RangePaths(i, j, PathLeaves(i, j, conv)))
    /\ UNCHANGED <<r, snapshot, input, origin, verdict>>

\* rp, err := mt.MthFromRangeAp(nil, -1, 0, nil, nil) on the empty tree
CallMthFromRangeApEmpty ==
    /\ pc # "panic"
    /\ Len(mt.data) = 0
    /\ ret' = MthFromRangeAp(mt, Nil, -1, 0, Nil, Nil)
    /\ pc' = "MthFromRangeAp"
    /\ args' = [op |-> "MthFromRangeAp", i |-> -1, j |-> -1, conv |-> "inside",
                lAp |-> Nil, rAp |-> Nil]
    /\ UNCHANGED <<mt, r, snapshot, input, origin, verdict>>

NextMt ==
    \/ CallMth
    \/ \E m \in 0..(MaxLeaves - 1) : CallAp(m)
    \/ CallMthFromAp
    \/ \E i, j \in 0..MaxLeaves : \E conv \in {"inside", "outside"} :
          CallMthFromRangeAp(i, j, conv)
    \/ CallMthFromRangeApEmpty

SpecMt == InitMt /\ [][NextMt]_vars

\* Leaf data in which values repeat: NewMerkleTree takes any [][]byte
LeafValues == {<<B(97)>>, <<B(98)>>}

AnyLeafData ==
    UNION {[1..n -> LeafValues] : n \in 0..MaxAnyLeaves}

InitAny ==
    /\ \E d \in AnyLeafData : mt = NewMerkleTree(testTwc, lp, ip, d)
    /\ r = <<>>
    /\ pc = "new"
    /\ snapshot = Nil
    /\ input = NoInput
    /\ origin = "none"
    /\ verdict = FALSE
    /\ args = NoArgs
    /\ ret = NoRet

SpecAny == InitAny /\ [][NextMt]_vars

----------------------------------------------------------------------------
(* Properties                                                              *)

\* p is a prefix of s, said without the operators the model computes with
IsPrefixOf(p, s) == \E n \in 0..Len(s) : [i \in 1..n |-> s[i]] = p

\* The stored keys that have key as a prefix
Matching(key) == {k \in DOMAIN r : IsPrefixOf(key, k)}

Subjects(a) == {a.subject[i] : i \in 1..Len(a.subject)}

\* C1: an answer and proof returned by Get, with the snapshot taken by
\* Snapshot() and the number of keys as size, is accepted by Verify.
C1_HonestRoundTrip ==
    (pc = "Verify" /\ origin = "Get") => verdict

\* C1 witness: a verified answer of several matches with both brackets
C1_Witness ==
    /\ pc = "Verify" /\ origin = "Get" /\ verdict
    /\ Len(input.answer.subject) >= 2
    /\ input.proof.ll # Nil /\ input.proof.rl # Nil

\* C3: the answer returned by Get lists exactly the stored keys that have the
\* query key as a prefix, strictly ascending, each with its stored payload.
C3_AnswerExact ==
    (pc = "Get") =>
        LET a == input.answer
        IN  /\ Subjects(a) = Matching(input.key)
            /\ \A i, j \in 1..Len(a.subject) : i < j => StrLess(a.subject[i], a.subject[j])
            /\ Len(a.payload) = Len(a.subject)
            /\ \A i \in 1..Len(a.subject) : a.payload[i] = PayloadOf(a.subject[i])
            /\ (a.subject = <<>>) <=> (Matching(input.key) = {})

\* C3 witness: Get returned two or more matches that are not the whole tree
C3_Witness ==
    /\ pc = "Get"
    /\ Len(input.answer.subject) >= 2
    /\ Len(input.answer.subject) < Len(mt.data)

\* C7: replacing the snapshot, one subject, one payload element, the left or
\* the right bracket leaf of a verifying answer makes Verify return false.
C7_TamperData ==
    (pc = "Verify" /\ origin \in {"snapshot", "subject", "payload", "ll", "rl"})
        => ~verdict

\* C7 witness: a replaced bracket leaf of an answer with matches was rejected
C7_Witness ==
    /\ pc = "Verify" /\ origin = "rl" /\ ~verdict
    /\ Len(input.answer.subject) >= 1

\* C8: replacing any single element of lap or rap of a verifying answer makes
\* Verify return false.
C8_TamperPaths ==
    (pc = "Verify" /\ origin \in {"lap", "rap"}) => ~verdict

\* C2: whenever Verify accepts an answer for a tree of n >= 1 keys against the
\* tree's size and snapshot, every stored key that has the query key as a
\* prefix is listed in answer.subject.
C2_Complete ==
    (pc = "Verify" /\ verdict /\ input.size = Len(mt.data) /\ input.size >= 1
        /\ input.snapshot = snapshot)
        => Matching(input.key) \subseteq Subjects(input.answer)

\* C4: whenever Verify accepts an answer for a tree of n >= 1 keys against the
\* tree's size and snapshot, every key listed in answer.subject has the query
\* key as a prefix.
C4_Correct ==
    (pc = "Verify" /\ verdict /\ input.size = Len(mt.data) /\ input.size >= 1
        /\ input.snapshot = snapshot)
        => \A k \in Subjects(input.answer) : IsPrefixOf(input.key, k)

\* The tree head by its definition (RFC 6962 with the tree-wide constant),
\* computed without the cache
RECURSIVE TreeHead(_, _)
TreeHead(t, data) ==
    IF Len(data) = 0 THEN hash(<<t.twc>>)
    ELSE IF Len(data) = 1 THEN hash(<<t.twc, t.leafPrefix, data[1]>>)
    ELSE LET k == CHOOSE q \in 1..Len(data) :
                     /\ q < Len(data) /\ 2 * q >= Len(data)
                     /\ \E e \in 0..Len(data) : q = 2 ^ e
         IN  hash(<<t.interiorPrefix, TreeHead(t, SubSeq(data, 1, k)),
                    TreeHead(t, SubSeq(data, k + 1, Len(data)))>>)

\* The ranges that can prove completeness
Provable(i, j, n) == 0 <= i /\ i < j /\ j <= n /\ (j - i >= 2 \/ i = 0 \/ j = n)

RangeCall(conv) == pc = "MthFromRangeAp" /\ args.conv = conv

\* C5: with the audit paths to the first and the last leaf inside the range,
\* MthFromRangeAp returns no error and the root Mth(), for every provable
\* range of a tree of distinct leaves, and for the empty and the one-leaf tree.
C5_RangeRoundTripInside ==
    (RangeCall("inside") /\ (Len(mt.data) = 0 \/ Provable(args.i, args.j, Len(mt.data))))
        => (~ret.err /\ ret.val = Mth(mt).val /\ ret.val = TreeHead(mt, mt.data))

\* C5 witness: a range strictly inside the tree, both paths present and joint
C5_Witness ==
    /\ RangeCall("inside") /\ ~ret.err /\ ret.val = snapshot
    /\ args.i > 0 /\ args.j < Len(mt.data) /\ args.j - args.i >= 2
    /\ last(args.lAp) = last(args.rAp)

\* C6: MthFromAp(data[i], i, n, Ap(i)) is the root Mth(); Ap(i) is empty when
\* n <= 1, otherwise its last element is the digest of the other half of the
\* tree (deepest sibling first); MthFromAp consumes all of Ap(i).
C6_AuditRoundTrip ==
    (pc = "MthFromAp") =>
        LET n == Len(mt.data)
            k == lpow2s(n)
        IN  /\ ret.val = Mth(mt).val
            /\ ret.val = TreeHead(mt, mt.data)
            /\ ret.rest = <<>>
            /\ n <= 1 => ret.path = <<>>
            /\ n >= 2 => /\ Len(ret.path) >= 1
                         /\ last(ret.path) =
                              IF args.m < k THEN TreeHead(mt, Drop(mt.data, k))
                              ELSE TreeHead(mt, Take(mt.data, k))

\* C6 witness: the last leaf of a tree whose size is not a power of two, which
\* has no sibling on some level
C6_Witness ==
    /\ pc = "MthFromAp" /\ ret.val = snapshot
    /\ Len(mt.data) = 5 /\ args.m = 4 /\ Len(ret.path) = 1

\* C9: with the audit paths to the leaves just outside the range (leaf i-1
\* and leaf j), MthFromRangeAp returns the root Mth() for every provable range.
C9_RangeRoundTripOutside ==
    (RangeCall("outside") /\ Provable(args.i, args.j, Len(mt.data)))
        => ret.val = Mth(mt).val

\* C10: Ap(m) on a tree of n >= 2 leaves completes and returns the same path
\* whatever was called before it, also as the first call after construction.
C10_CallOrder ==
    (args.op = "Ap" /\ Len(mt.data) >= 2)
        => (pc # "panic" /\ ret.path = Ap([mt EXCEPT !.cache = Mth(mt).cache], args.m).path)

\* C9 as amended: with the audit paths to the first and the last leaf of the
\* range (leaf i and leaf j-1), MthFromRangeAp returns the root Mth() for every
\* provable range of a tree of 1..MaxLeaves leaves; with the paths to the
\* leaves outside the range it returns the root only when it is handed no
\* path at all (i = 0 and j = n).
C9_RangeRoundTripAmended ==
    (pc = "MthFromRangeAp" /\ Len(mt.data) >= 1
        /\ Provable(args.i, args.j, Len(mt.data)))
        => IF args.conv = "inside" THEN ret.val = Mth(mt).val
           ELSE (ret.val = Mth(mt).val) <=> (args.i = 0 /\ args.j = Len(mt.data))

\* C9 witness: a range strictly inside the tree verified with the inside paths
C9_Witness ==
    /\ RangeCall("inside") /\ ret.val = Mth(mt).val
    /\ Len(mt.data) >= 5
    /\ args.i > 0 /\ args.j < Len(mt.data) /\ args.j - args.i >= 2
    /\ last(args.lAp) # last(args.rAp)

\* The leaf where the match range of key starts, or where key would be
\* inserted: the number of stored keys below key
RangeStart(key) == Cardinality({k \in DOMAIN r : StrLess(k, key)})

\* The leaf after the match range of key
RangeEnd(key) == RangeStart(key) + Cardinality(Matching(key))

\* The audit path of leaf m of the tree Get worked on
PathTo(m) == Ap([mt EXCEPT !.cache = Mth(mt).cache], m).path

\* Where the brackets of a proof returned by Get are: the left one is absent
\* exactly when the range starts at leaf 0 and is the leaf at proof.index
\* otherwise, the right one is absent exactly when the range ends at leaf n-1
\* and is the leaf after the range otherwise.
BracketLeaves(p, key) ==
    /\ (p.ll = Nil) <=> (RangeStart(key) = 0)
    /\ (p.rl = Nil) <=> (RangeEnd(key) = Len(mt.data))
    /\ p.ll # Nil => (p.index = RangeStart(key) - 1 /\ p.ll = mt.data[p.index + 1])
    /\ p.rl # Nil => p.rl = mt.data[RangeEnd(key) + 1]

\* C11: in every proof returned by Get, for every tree size and key, ll and
\* lap are both absent or both present, and so are rl and rap; the left pair
\* is absent exactly when the range starts at leaf 0, the right pair exactly
\* when it ends at leaf n-1, and lap, when present, is Ap(proof.index).
C11_BracketPairing ==
    (pc = "Get") =>
        /\ (input.proof.ll = Nil) <=> (input.proof.lap = Nil)
        /\ (input.proof.rl = Nil) <=> (input.proof.rap = Nil)
        /\ BracketLeaves(input.proof, input.key)
        /\ input.proof.lap # Nil => input.proof.lap = PathTo(input.proof.index)

\* C11 as amended: the bracket leaves are as C11 says; each audit path is
\* absent when its leaf is absent, and is Ap of its leaf's position when the
\* leaf is present, which is the absent (nil) path in a tree of one leaf and a
\* present one in every tree of two or more leaves.
C11_BracketPairingAmended ==
    (pc = "Get") =>
        /\ BracketLeaves(input.proof, input.key)
        /\ input.proof.ll = Nil => input.proof.lap = Nil
        /\ input.proof.rl = Nil => input.proof.rap = Nil
        /\ input.proof.ll # Nil => input.proof.lap = PathTo(input.proof.index)
        /\ input.proof.rl # Nil => input.proof.rap = PathTo(RangeEnd(input.key))
        /\ Len(mt.data) >= 2 =>
              /\ (input.proof.ll = Nil) <=> (input.proof.lap = Nil)
              /\ (input.proof.rl = Nil) <=> (input.proof.rap = Nil)

\* C11 witness: Get on a tree of one leaf returned a bracket leaf with no path
C11_Witness ==
    /\ pc = "Get" /\ Len(mt.data) = 1
    /\ input.proof.ll # Nil /\ input.proof.lap = Nil

\* Leaves a and b of a tree of n leaves lie in the same half of the tree
SameHalf(a, b, n) == (a < lpow2s(n)) <=> (b < lpow2s(n))

\* C12: for arbitrary leaf data, also with repeated leaf values, when the
\* audit paths Ap(i) and Ap(j-1) of a range strictly inside the tree
\* (0 < i, j < n, j - i >= 2) have equal outermost elements, leaves i and j-1
\* lie in the same half of the tree, and MthFromRangeAp(d[i:j], i, n, Ap(i),
\* Ap(j-1)) returns no error and the root Mth().
C12_JointPathAnyData ==
    (RangeCall("inside") /\ args.i > 0 /\ args.j < Len(mt.data) /\ args.j - args.i >= 2)
        => /\ last(args.lAp) = last(args.rAp)
                 => SameHalf(args.i, args.j - 1, Len(mt.data))
           /\ ~ret.err
           /\ ret.val = Mth(mt).val

====
